---- MODULE Spec2Model ----
(***************************************************************************)
(* The PyTorch model handlers of apache_beam/ml/inference/                 *)
(* pytorch_inference.py: PytorchModelHandlerTensor and                     *)
(* PytorchModelHandlerKeyedTensor, the model loader _load_model, the       *)
(* device normalizer _convert_to_device and the four inference functions.  *)
(*                                                                         *)
(* One handler object is modelled.  Each action is one call of one of its  *)
(* methods by the host pipeline; the variable last records that call (its  *)
(* arguments and its outcome: a return value or the raised exception).     *)
(*                                                                         *)
(* Python values are represented as follows.                               *)
(*   Optional[x]   a sequence of length at most one: <<>> is None          *)
(*   Optional[str] the string None below stands for Python's None          *)
(*   dict          a function whose domain is the set of keys              *)
(*   torch.device  "cpu" or "cuda"                                         *)
(*   torch.Tensor  [shape, data, width, device]: data is the row-major     *)
(*                 sequence of the elements, width is element_size()       *)
(***************************************************************************)
EXTENDS Integers, Sequences, FiniteSets, TLC

\* cuda_is_available  what torch.cuda.is_available() answers in this process
\* handler   the handler object's fields
\* model     the model the host pipeline holds: what the latest load_model()
\*           that returned has returned (<<>> before)
\* input     the batch and the arguments the host pipeline has at hand for
\*           run_inference or get_num_bytes
\* last      the latest call: its arguments and what it came to
\* fellBack  whether some load_model() so far has targeted the CPU for a
\*           handler whose device was the GPU
VARIABLES cuda_is_available, handler, model, input, last, fellBack

vars == <<cuda_is_available, handler, model, input, last, fellBack>>

\* The longest batch the host pipeline hands to one call.
MaxBatch == 2

None == "<None>"

\* The element_size() of torch.float32, the element type of the tensors of
\* run_inference.
F32 == 4

EmptyDict == [k \in {} |-> 0]

\* ------------------------------------------------------------ tensors

RECURSIVE Numel(_)
Numel(shape) == IF shape = <<>> THEN 1 ELSE Head(shape) * Numel(Tail(shape))

\* torch.full(shape, fill) with an element type of `width` bytes, on the host.
Tensor(shape, fill, width) ==
  [shape |-> shape, data |-> [i \in 1..Numel(shape) |-> fill],
   width |-> width, device |-> "cpu"]

\* Python's iteration over a tensor: its i-th slice along dimension 0.
Slice(t, i) ==
  LET n == Numel(Tail(t.shape))
  IN  [shape |-> Tail(t.shape),
       data |-> SubSeq(t.data, (i - 1) * n + 1, i * n),
       width |-> t.width, device |-> t.device]

\* len(tensor): the size of dimension 0.
Rows(t) == Head(t.shape)

RECURSIVE ConcatData(_)
ConcatData(ts) == IF ts = <<>> THEN <<>> ELSE Head(ts).data \o ConcatData(Tail(ts))

Max(a, b) == IF a >= b THEN a ELSE b

RECURSIVE MaxWidth(_)
MaxWidth(ts) == IF ts = <<>> THEN 0 ELSE Max(Head(ts).width, MaxWidth(Tail(ts)))

\* torch.stack(tensors): a new leading dimension; RuntimeError on an empty list
\* and on tensors of different shapes.  The element type is the promoted one.
torch_stack(ts) ==
  IF ts = <<>> \/ \E i \in 1..Len(ts) : ts[i].shape # ts[1].shape
  THEN [ok |-> FALSE, val |-> <<>>]
  ELSE [ok |-> TRUE,
        val |-> <<[shape |-> <<Len(ts)>> \o ts[1].shape, data |-> ConcatData(ts),
                   width |-> MaxWidth(ts), device |-> ts[1].device]>>]

_convert_to_device(examples, device) ==
  IF examples.device # device THEN [examples EXCEPT !.device = device] ELSE examples

\* ------------------------------------------------------------ the model
\* The torch.nn.Module is the user's: model_class(**model_params).  The class
\* modelled has two methods, forward (the default entry point) and generate,
\* takes an optional keyword argument offset, and comes in two flavours:
\*   strict   forward(a, b, ...) combines its tensors row by row and raises
\*            when it gets none or they disagree on the number of rows
\*   lenient  reads as many rows as every tensor it got has (none without one)

MethodBias(method) == IF method = "generate" THEN 1 ELSE 0

ModelArgs == {"offset"}

Offset(inference_args) ==
  IF "offset" \in DOMAIN inference_args THEN inference_args["offset"] ELSE 0

\* What one invocation is recorded as: the method run, what it was given and
\* the tensor it returned (<<>> when it raised).
Invocation(method, tensors, inference_args, out) ==
  [method |-> method, tensors |-> tensors, inference_args |-> inference_args, out |-> out]

\* A call that came to an invocation that returned val.
CallOk(method, tensors, inference_args, val) ==
  [ok |-> TRUE, err |-> "none", val |-> <<val>>,
   calls |-> <<Invocation(method, tensors, inference_args, <<val>>)>>]

\* A call that came to an invocation that raised err.
CallRaised(method, tensors, inference_args, err) ==
  [ok |-> FALSE, err |-> err, val |-> <<>>,
   calls |-> <<Invocation(method, tensors, inference_args, <<>>)>>]

\* A call Python rejects before the method runs.
CallRejected(err) == [ok |-> FALSE, err |-> err, val |-> <<>>, calls |-> <<>>]

\* method(batched_tensors, **inference_args) on a model taking one tensor.
ModelCallTensor(m, method, x, inference_args) ==
  IF ~(DOMAIN inference_args \subseteq ModelArgs)
  THEN CallRaised(method, <<x>>, inference_args, "TypeError")
  ELSE IF x.device # m.device
  THEN CallRaised(method, <<x>>, inference_args, "RuntimeError")
  ELSE CallOk(method, <<x>>, inference_args,
              [x EXCEPT !.data = [i \in DOMAIN x.data |->
                 x.data[i] + m.bias + MethodBias(method) + Offset(inference_args)]])

RECURSIVE SumSeq(_)
SumSeq(s) == IF s = <<>> THEN 0 ELSE Head(s) + SumSeq(Tail(s))

RECURSIVE SumOver(_, _)
SumOver(f, S) ==
  IF S = {} THEN 0
  ELSE LET k == CHOOSE k \in S : TRUE IN f[k] + SumOver(f, S \ {k})

RECURSIVE MinRows(_, _)
MinRows(tensors, S) ==
  LET k == CHOOSE k \in S : TRUE
  IN  IF S \ {k} = {} THEN Rows(tensors[k])
      ELSE LET r == MinRows(tensors, S \ {k})
           IN  IF Rows(tensors[k]) <= r THEN Rows(tensors[k]) ELSE r

\* method(**key_to_batched_tensors, **inference_args).  A key given twice is
\* Python's TypeError at the call, before the method runs.
ModelCallKeyed(m, method, tensors, inference_args) ==
  LET keys == DOMAIN tensors
      rows == IF keys = {} THEN 0 ELSE MinRows(tensors, keys)
      out == [shape |-> <<rows>>,
              data |-> [i \in 1..rows |->
                 SumOver([k \in keys |-> SumSeq(Slice(tensors[k], i).data)], keys)
                   + m.bias + MethodBias(method) + Offset(inference_args)],
              width |-> F32, device |-> m.device]
  IN  IF keys \cap DOMAIN inference_args # {} THEN CallRejected("TypeError")
      ELSE IF ~(DOMAIN inference_args \subseteq ModelArgs)
      THEN CallRaised(method, tensors, inference_args, "TypeError")
      ELSE IF \E k \in keys : tensors[k].device # m.device
      THEN CallRaised(method, tensors, inference_args, "RuntimeError")
      ELSE IF m.strict /\ (keys = {} \/ \E k \in keys : Rows(tensors[k]) # rows)
      THEN CallRaised(method, tensors, inference_args, "RuntimeError")
      ELSE CallOk(method, tensors, inference_args, out)

\* ------------------------------------------------- inference functions
\* What a call of an inference function comes to: the PredictionResults it
\* returned or the exception it raised, and the model invocations it made.

Returned(results, calls) ==
  [status |-> "returned", error |-> "none", results |-> results, calls |-> calls]

Raised(error, calls) ==
  [status |-> "raised", error |-> error, results |-> <<>>, calls |-> calls]

PredictionResult(example, inference, model_id) ==
  [example |-> example, inference |-> inference, model_id |-> model_id]

Min(a, b) == IF a <= b THEN a ELSE b

\* utils._convert_to_result: each input element paired with its slice of the
\* model's output, in input order, tagged with the model id.
_convert_to_result(batch, predictions, model_id) ==
  [i \in 1..Min(Len(batch), Rows(predictions)) |->
     PredictionResult(batch[i], Slice(predictions, i), model_id)]

default_tensor_inference_fn_drops_first(batch, m, device, inference_args, model_id) ==
  LET st == torch_stack(batch)
  IN  IF ~st.ok THEN Raised("RuntimeError", <<>>)
      ELSE LET batched_tensors == _convert_to_device(st.val[1], device)
               r == ModelCallTensor(m, m.entry, batched_tensors, inference_args)
           IN  IF ~r.ok THEN Raised(r.err, r.calls)
               ELSE Returned(_convert_to_result(Tail(batch), r.val[1], model_id), r.calls)

default_tensor_inference_fn(batch, m, device, inference_args, model_id) ==
  LET st == torch_stack(batch)
  IN  IF ~st.ok THEN Raised("RuntimeError", <<>>)
      ELSE LET batched_tensors == _convert_to_device(st.val[1], device)
               r == ModelCallTensor(m, m.entry, batched_tensors, inference_args)
           IN  IF ~r.ok THEN Raised(r.err, r.calls)
               ELSE Returned(_convert_to_result(batch, r.val[1], model_id), r.calls)

\* make_tensor_model_fn(model_fn)(batch, ...): model_fn names a method of the model.
make_tensor_model_fn(model_fn, batch, m, device, inference_args, model_id) ==
  LET st == torch_stack(batch)
  IN  IF ~st.ok THEN Raised("RuntimeError", <<>>)
      ELSE LET batched_tensors == _convert_to_device(st.val[1], device)
               r == ModelCallTensor(m, model_fn, batched_tensors, inference_args)
           IN  IF ~r.ok THEN Raised(r.err, r.calls)
               ELSE Returned(_convert_to_result(batch, r.val[1], model_id), r.calls)

RECURSIVE TensorsOfKey(_, _)
TensorsOfKey(batch, key) ==
  IF batch = <<>> THEN <<>>
  ELSE (IF key \in DOMAIN Head(batch) THEN <<Head(batch)[key]>> ELSE <<>>)
         \o TensorsOfKey(Tail(batch), key)

\* The defaultdict(list) both keyed functions fill: per key, the tensors of the
\* examples that have the key, in batch order.
key_to_tensor_list(batch) ==
  [key \in UNION {DOMAIN batch[i] : i \in 1..Len(batch)} |-> TensorsOfKey(batch, key)]

default_keyed_tensor_inference_fn_no_model_id(batch, m, device, inference_args, model_id) ==
  LET lists == key_to_tensor_list(batch)
      stacked == [key \in DOMAIN lists |-> torch_stack(lists[key])]
  IN  IF \E key \in DOMAIN lists : ~stacked[key].ok THEN Raised("RuntimeError", <<>>)
      ELSE LET key_to_batched_tensors ==
                 [key \in DOMAIN lists |-> _convert_to_device(stacked[key].val[1], device)]
               r == ModelCallKeyed(m, m.entry, key_to_batched_tensors, inference_args)
           IN  IF ~r.ok THEN Raised(r.err, r.calls)
               ELSE Returned(_convert_to_result(batch, r.val[1], None), r.calls)

default_keyed_tensor_inference_fn_uneven_raises(batch, m, device, inference_args, model_id) ==
  LET lists == key_to_tensor_list(batch)
      stacked == [key \in DOMAIN lists |-> torch_stack(lists[key])]
  IN  IF \E key \in DOMAIN lists : ~stacked[key].ok \/ Len(lists[key]) # Len(batch)
      THEN Raised("RuntimeError", <<>>)
      ELSE LET key_to_batched_tensors ==
                 [key \in DOMAIN lists |-> _convert_to_device(stacked[key].val[1], device)]
               r == ModelCallKeyed(m, m.entry, key_to_batched_tensors, inference_args)
           IN  IF ~r.ok THEN Raised(r.err, r.calls)
               ELSE Returned(_convert_to_result(batch, r.val[1], model_id), r.calls)

default_keyed_tensor_inference_fn(batch, m, device, inference_args, model_id) ==
  LET lists == key_to_tensor_list(batch)
      stacked == [key \in DOMAIN lists |-> torch_stack(lists[key])]
  IN  IF \E key \in DOMAIN lists : ~stacked[key].ok THEN Raised("RuntimeError", <<>>)
      ELSE LET key_to_batched_tensors ==
                 [key \in DOMAIN lists |-> _convert_to_device(stacked[key].val[1], device)]
               r == ModelCallKeyed(m, m.entry, key_to_batched_tensors, inference_args)
           IN  IF ~r.ok THEN Raised(r.err, r.calls)
               ELSE Returned(_convert_to_result(batch, r.val[1], model_id), r.calls)

\* make_keyed_tensor_model_fn(model_fn)(batch, ...): pred_fn is bound in the
\* body of the loop over the keys, so it is unbound when there is no key.
make_keyed_tensor_model_fn(model_fn, batch, m, device, inference_args, model_id) ==
  LET lists == key_to_tensor_list(batch)
      stacked == [key \in DOMAIN lists |-> torch_stack(lists[key])]
  IN  IF \E key \in DOMAIN lists : ~stacked[key].ok THEN Raised("RuntimeError", <<>>)
      ELSE IF DOMAIN lists = {} THEN Raised("UnboundLocalError", <<>>)
      ELSE LET key_to_batched_tensors ==
                 [key \in DOMAIN lists |-> _convert_to_device(stacked[key].val[1], device)]
               r == ModelCallKeyed(m, model_fn, key_to_batched_tensors, inference_args)
           IN  IF ~r.ok THEN Raised(r.err, r.calls)
               ELSE Returned(_convert_to_result(batch, r.val[1], model_id), r.calls)

\* ------------------------------------------------------------ the loader
\* What the environment does to one attempt to load: nothing ("ok"), or the
\* step that raises and what it raises.
\*   open_IOError                 FileSystems.open(state_dict_path, 'rb')
\*   load_RuntimeError            torch.load(file, map_location=device)
\*   load_UnpicklingError         torch.load, an exception that is no RuntimeError
\*   load_state_dict_RuntimeError model.load_state_dict(state_dict)
\*   to_RuntimeError              model.to(device)
LoadOutcomes ==
  {"ok", "open_IOError", "load_RuntimeError", "load_UnpicklingError",
   "load_state_dict_RuntimeError", "to_RuntimeError"}

\* model_class(**model_params), then load_state_dict, to(device) and eval().
LoadedModel(state_dict_path, device, model_params) ==
  [device |-> device, weights |-> state_dict_path, bias |-> model_params.bias,
   strict |-> model_params.strict, training |-> FALSE, entry |-> "forward"]

TargetDevice_as_requested(device, is_available) == device

\* The device an attempt targets: CPU for a GPU that is not there.
TargetDevice(device, is_available) ==
  IF device = "cuda" /\ ~is_available THEN "cpu" ELSE device

CaughtForRetry_any_exception(device, outcome) ==
  outcome \in {"load_RuntimeError", "load_UnpicklingError"} /\ device = "cuda"

\* The except clause: a RuntimeError of torch.load, caught when the target is a GPU.
CaughtForRetry(device, outcome) ==
  outcome = "load_RuntimeError" /\ device = "cuda"

\* _load_model(model_class, state_dict_path, device, **model_params) where
\* torch.cuda.is_available() answers is_available and the environment
\* treats the successive attempts as `outcomes` says.  The result is the
\* returned (model, device) or the exception raised, with the attempts made
\* (the target device and the path opened) and the warnings logged.
RECURSIVE _load_model(_, _, _, _, _)
_load_model(state_dict_path, device, model_params, is_available, outcomes) ==
  LET target == TargetDevice(device, is_available)
      substituted == IF target # device THEN <<"gpu_not_available">> ELSE <<>>
      outcome == Head(outcomes)
      attempt == [device |-> target, path |-> state_dict_path, outcome |-> outcome]
  IN  IF outcome = "ok"
      THEN [status |-> "returned", error |-> "none",
            model |-> <<LoadedModel(state_dict_path, target, model_params)>>,
            device |-> <<target>>, attempts |-> <<attempt>>, warnings |-> substituted]
      ELSE IF CaughtForRetry(target, outcome)
      THEN LET retry == _load_model(state_dict_path, "cpu", model_params,
                                    is_available, Tail(outcomes))
           IN  [retry EXCEPT !.attempts = <<attempt>> \o @,
                             !.warnings = substituted \o <<"gpu_load_failed">> \o @]
      ELSE [status |-> "raised", error |-> outcome, model |-> <<>>, device |-> <<>>,
            attempts |-> <<attempt>>, warnings |-> substituted]

\* ------------------------------------------------------------ the handler

Paths == {"m.pt", "n.pt"}

Kinds == {"Tensor", "KeyedTensor"}

ModelParams == {[bias |-> 0, strict |-> TRUE], [bias |-> 1, strict |-> FALSE]}

\* inference_fn: the default function of the handler's class, or
\* make_tensor_model_fn / make_keyed_tensor_model_fn of a method name.
InferenceFns ==
  {[kind |-> "default", model_fn |-> None], [kind |-> "attr", model_fn |-> "generate"]}

\* The (min_batch_size, max_batch_size) pairs the handler is constructed with.
BatchSizes == {<< <<>>, <<>> >>, << <<1>>, <<MaxBatch>> >>}

\* __init__ of both classes.
PytorchModelHandler(kind, state_dict_path, model_params, device, inference_fn, min_batch_size, max_batch_size) ==
  [kind |-> kind,
   state_dict_path |-> state_dict_path,
   device |-> IF device = "GPU" THEN "cuda" ELSE "cpu",
   model_params |-> model_params,
   inference_fn |-> inference_fn,
   batching_kwargs |->
     [k \in (IF min_batch_size # <<>> THEN {"min_batch_size"} ELSE {})
            \cup (IF max_batch_size # <<>> THEN {"max_batch_size"} ELSE {}) |->
        IF k = "min_batch_size" THEN min_batch_size[1] ELSE max_batch_size[1]]]

\* What the environment does to the attempts of one load_model(): to the
\* first, and to the second, which is made only after a caught RuntimeError.
AttemptOutcomes ==
  {<<o, "ok">> : o \in LoadOutcomes} \cup {<<"load_RuntimeError", o>> : o \in LoadOutcomes}

load_model_records_best_device ==
  \E outcomes \in AttemptOutcomes :
    LET r == _load_model(handler.state_dict_path, handler.device,
                         handler.model_params, cuda_is_available, outcomes)
    IN  /\ handler' = IF r.status = "returned"
                      THEN [handler EXCEPT !.device =
                              IF cuda_is_available THEN "cuda" ELSE r.device[1]]
                      ELSE handler
        /\ model' = IF r.status = "returned" THEN r.model ELSE model
        /\ last' = [op |-> "load_model", requested |-> handler.device,
                    fell_back_before |-> fellBack, out |-> r]
        /\ fellBack' = (fellBack \/ (handler.device = "cuda"
                          /\ \E i \in 1..Len(r.attempts) : r.attempts[i].device = "cpu"))
        /\ UNCHANGED <<cuda_is_available, input>>

load_model_device_not_recorded ==
  \E outcomes \in AttemptOutcomes :
    LET r == _load_model(handler.state_dict_path, handler.device,
                         handler.model_params, cuda_is_available, outcomes)
    IN  /\ model' = IF r.status = "returned" THEN r.model ELSE model
        /\ last' = [op |-> "load_model", requested |-> handler.device,
                    fell_back_before |-> fellBack, out |-> r]
        /\ fellBack' = (fellBack \/ (handler.device = "cuda"
                          /\ \E i \in 1..Len(r.attempts) : r.attempts[i].device = "cpu"))
        /\ UNCHANGED <<cuda_is_available, handler, input>>

\* load_model(): the device is recorded only when _load_model returns.
load_model ==
  \E outcomes \in AttemptOutcomes :
    LET r == _load_model(handler.state_dict_path, handler.device,
                         handler.model_params, cuda_is_available, outcomes)
    IN  /\ handler' = IF r.status = "returned"
                      THEN [handler EXCEPT !.device = r.device[1]] ELSE handler
        /\ model' = IF r.status = "returned" THEN r.model ELSE model
        /\ last' = [op |-> "load_model", requested |-> handler.device,
                    fell_back_before |-> fellBack, out |-> r]
        /\ fellBack' = (fellBack \/ (handler.device = "cuda"
                          /\ \E i \in 1..Len(r.attempts) : r.attempts[i].device = "cpu"))
        /\ UNCHANGED <<cuda_is_available, input>>

update_model_path_unconditional ==
  \E model_path \in Paths \cup {"", None} :
    /\ handler' = [handler EXCEPT !.state_dict_path = model_path]
    /\ last' = [op |-> "update_model_path", model_path |-> model_path, before |-> handler]
    /\ UNCHANGED <<cuda_is_available, model, input, fellBack>>

\* update_model_path(model_path): a falsy model_path keeps the stored one.
update_model_path ==
  \E model_path \in Paths \cup {"", None} :
    /\ handler' = [handler EXCEPT !.state_dict_path =
                     IF model_path \notin {"", None} THEN model_path ELSE @]
    /\ last' = [op |-> "update_model_path", model_path |-> model_path, before |-> handler]
    /\ UNCHANGED <<cuda_is_available, model, input, fellBack>>

\* The sequences over S of length at most n.
SeqsUpTo(S, n) == UNION {[1..k -> S] : k \in 0..n}

\* The dicts with some of Keys[k]'s tensors under each key k they have.
Dicts(TensorsOf) ==
  UNION {{d \in [ks -> UNION {TensorsOf[k] : k \in ks}] : \A k \in ks : d[k] \in TensorsOf[k]}
           : ks \in SUBSET DOMAIN TensorsOf}

\* The tensors run_inference is given: two of one shape that differ in their
\* elements, and one of another shape.
InferenceTensors == {Tensor(<<1>>, 0, F32), Tensor(<<1>>, 1, F32), Tensor(<<2>>, 0, F32)}

\* The examples the keyed run_inference is given, with both, one or no key.
InferenceExamples ==
  Dicts([k \in {"a", "b"} |->
           IF k = "a" THEN InferenceTensors ELSE {Tensor(<<1>>, 0, F32)}])

\* inference_args as the caller gives it: None, {}, an argument the model
\* takes, and one it does not take (for the keyed model, a second "a").
InferenceArgs == {<<>>, <<EmptyDict>>, <<[k \in {"offset"} |-> 1]>>, <<[k \in {"a"} |-> 1]>>}

\* self._inference_fn(batch, model, self._device, inference_args, self._state_dict_path)
InferenceFn(h, batch, m, inference_args) ==
  IF h.kind = "Tensor"
  THEN IF h.inference_fn.kind = "default"
       THEN default_tensor_inference_fn(batch, m, h.device, inference_args, h.state_dict_path)
       ELSE make_tensor_model_fn(h.inference_fn.model_fn, batch, m, h.device,
                                 inference_args, h.state_dict_path)
  ELSE IF h.inference_fn.kind = "default"
       THEN default_keyed_tensor_inference_fn(batch, m, h.device, inference_args,
                                              h.state_dict_path)
       ELSE make_keyed_tensor_model_fn(h.inference_fn.model_fn, batch, m, h.device,
                                       inference_args, h.state_dict_path)

\* run_inference(batch, model, inference_args), called with the model the
\* latest load_model() that returned has returned.
run_inference ==
  /\ model # <<>>
  /\ input.for = "run_inference"
  /\ LET inference_args == IF input.inference_args = <<>>
                              \/ input.inference_args[1] = EmptyDict
                           THEN EmptyDict ELSE input.inference_args[1]
     IN  last' = [op |-> "run_inference", model |-> model[1],
                  inference_args |-> inference_args, handler |-> handler,
                  out |-> InferenceFn(handler, input.batch, model[1], inference_args)]
  /\ UNCHANGED <<cuda_is_available, handler, model, input, fellBack>>

\* The tensors get_num_bytes is given: of one and two dimensions, of two
\* element types.
NumBytesTensors ==
  {Tensor(<<2>>, 0, F32), Tensor(<<3>>, 0, 1), Tensor(<<2, 3>>, 0, F32)}

NumBytesExamples ==
  Dicts([k \in {"a", "b"} |->
           IF k = "a" THEN {Tensor(<<2>>, 0, F32), Tensor(<<2, 3>>, 0, 1)}
           ELSE {Tensor(<<>>, 0, F32)}])

RECURSIVE SumElementSizes(_)
SumElementSizes(els) ==
  IF els = <<>> THEN 0 ELSE Head(els).width + SumElementSizes(Tail(els))

\* PytorchModelHandlerTensor.get_num_bytes: `for el in tensor` runs over the
\* slices along dimension 0, and is a TypeError on a tensor of no dimension.
RECURSIVE get_num_bytes_tensor(_)
get_num_bytes_tensor(batch) ==
  IF batch = <<>> THEN [status |-> "returned", error |-> "none", value |-> 0]
  ELSE IF Head(batch).shape = <<>>
  THEN [status |-> "raised", error |-> "TypeError", value |-> 0]
  ELSE LET tensor == Head(batch)
           rest == get_num_bytes_tensor(Tail(batch))
       IN  IF rest.status = "raised" THEN rest
           ELSE [rest EXCEPT !.value =
                   SumElementSizes([i \in 1..Rows(tensor) |-> Slice(tensor, i)]) + @]

\* PytorchModelHandlerKeyedTensor.get_num_bytes: `for el in tensor.values()`
\* runs over the tensors of the dict.
RECURSIVE get_num_bytes_keyed(_)
get_num_bytes_keyed(batch) ==
  IF batch = <<>> THEN [status |-> "returned", error |-> "none", value |-> 0]
  ELSE LET tensor == Head(batch)
           rest == get_num_bytes_keyed(Tail(batch))
       IN  [rest EXCEPT !.value =
              SumOver([k \in DOMAIN tensor |-> tensor[k].width], DOMAIN tensor) + @]

get_num_bytes ==
  /\ input.for = "get_num_bytes"
  /\ last' = [op |-> "get_num_bytes",
              out |-> IF handler.kind = "Tensor" THEN get_num_bytes_tensor(input.batch)
                      ELSE get_num_bytes_keyed(input.batch)]
  /\ UNCHANGED <<cuda_is_available, handler, model, input, fellBack>>

get_metrics_namespace ==
  /\ last' = [op |-> "get_metrics_namespace", out |-> "BeamML_PyTorch"]
  /\ UNCHANGED <<cuda_is_available, handler, model, input, fellBack>>

validate_inference_args ==
  /\ last' = [op |-> "validate_inference_args", out |-> None]
  /\ UNCHANGED <<cuda_is_available, handler, model, input, fellBack>>

batch_elements_kwargs ==
  /\ last' = [op |-> "batch_elements_kwargs", out |-> handler.batching_kwargs]
  /\ UNCHANGED <<cuda_is_available, handler, model, input, fellBack>>

\* ------------------------------------------------------ specifications

RunInferenceInput(batch, inference_args) ==
  [for |-> "run_inference", batch |-> batch, inference_args |-> inference_args]

GetNumBytesInput(batch) == [for |-> "get_num_bytes", batch |-> batch]

\* What the host pipeline may have at hand for a handler of a kind.
Inputs(kind) ==
  IF kind = "Tensor"
  THEN {RunInferenceInput(b, a) : b \in SeqsUpTo(InferenceTensors, MaxBatch), a \in InferenceArgs}
         \cup {GetNumBytesInput(b) : b \in SeqsUpTo(NumBytesTensors, MaxBatch)}
  ELSE {RunInferenceInput(b, a) : b \in SeqsUpTo(InferenceExamples, MaxBatch), a \in InferenceArgs}
         \cup {GetNumBytesInput(b) : b \in SeqsUpTo(NumBytesExamples, MaxBatch)}

\* The inputs of the specification of the handler's life: one batch of the
\* greatest length whose examples agree in keys and shape, for each call.
LifeInputs(kind) ==
  LET t(i) == Tensor(<<1>>, i % 2, F32)
      batch == [i \in 1..MaxBatch |-> IF kind = "Tensor" THEN t(i) ELSE [k \in {"a"} |-> t(i)]]
  IN  {RunInferenceInput(batch, <<>>), RunInferenceInput(batch, <<[k \in {"offset"} |-> 1]>>),
       GetNumBytesInput(batch)}

\* The handler as constructed, the model not loaded yet.
Init ==
  /\ \E kind \in Kinds, params \in ModelParams, device \in {"CPU", "GPU"},
        fn \in InferenceFns, sizes \in BatchSizes :
       /\ handler = PytorchModelHandler(kind, "m.pt", params, device, fn, sizes[1], sizes[2])
       /\ input \in LifeInputs(kind)
  /\ cuda_is_available \in BOOLEAN
  /\ model = <<>>
  /\ last = [op |-> "__init__"]
  /\ fellBack = FALSE

Next ==
  \/ load_model
  \/ update_model_path
  \/ run_inference
  \/ get_num_bytes
  \/ get_metrics_namespace
  \/ validate_inference_args
  \/ batch_elements_kwargs

\* The life of one handler: any calls in any order.
Spec == Init /\ [][Next]_vars

\* The handler after a load_model() that returned, with a GPU if its device is one.
InitLoaded ==
  /\ \E kind \in Kinds, params \in ModelParams, device \in {"CPU", "GPU"},
        fn \in InferenceFns :
       LET h == PytorchModelHandler(kind, "m.pt", params, device, fn, <<>>, <<>>)
           r == _load_model(h.state_dict_path, h.device, h.model_params, TRUE, <<"ok", "ok">>)
       IN  /\ handler = h
           /\ model = r.model
           /\ input \in Inputs(kind)
           /\ last = [op |-> "load_model", requested |-> h.device,
                      fell_back_before |-> FALSE, out |-> r]
  /\ cuda_is_available = TRUE
  /\ fellBack = FALSE

NextLoaded ==
  \/ update_model_path
  \/ run_inference
  \/ get_num_bytes

\* The calls on a loaded handler that take a batch, over all the batches.
InferenceSpec == InitLoaded /\ [][NextLoaded]_vars

\* ------------------------------------------------------------ claims

Attempts == last.out.attempts

AllAttemptsOnCpu == \A i \in 1..Len(Attempts) : Attempts[i].device = "cpu"

\* C1 as stated: once some load_model() has fallen back from the GPU to the
\* CPU, every later load_model() of the handler targets the CPU only.
C1_EveryLaterLoadTargetsCpu ==
  (last.op = "load_model" /\ last.fell_back_before) => AllAttemptsOnCpu

\* C1 amended: once the handler's recorded device is the CPU (a load_model()
\* that fell back has returned), no call changes it back, and every later
\* load_model() targets the CPU only.
C1_RecordedCpuIsKept ==
  [][handler.device = "cpu" =>
       /\ handler'.device = "cpu"
       /\ last'.op = "load_model" =>
            \A i \in 1..Len(last'.out.attempts) : last'.out.attempts[i].device = "cpu"]_vars

\* A load_model() on a handler that an earlier load_model() has moved from the
\* GPU to the CPU.
C1_Witness ==
  /\ last.op = "load_model"
  /\ last.fell_back_before
  /\ last.requested = "cpu"
  /\ last.out.status = "returned"

\* C2 as stated: any failure of an attempt that targets the GPU is caught and
\* followed by exactly one attempt on the CPU; a failure of an attempt on the
\* CPU propagates; there are at most two attempts and the call ends.
C2_AnyGpuFailureIsRetried ==
  last.op = "load_model" =>
    /\ Len(Attempts) \in {1, 2}
    /\ last.out.status \in {"returned", "raised"}
    /\ (Attempts[1].device = "cuda" /\ Attempts[1].outcome # "ok") =>
         /\ Len(Attempts) = 2
         /\ Attempts[2].device = "cpu"
         /\ Attempts[2].path = Attempts[1].path
    /\ (Attempts[1].device = "cpu" /\ Attempts[1].outcome # "ok") =>
         /\ Len(Attempts) = 1
         /\ last.out.status = "raised" /\ last.out.error = Attempts[1].outcome
    /\ (Len(Attempts) = 2 /\ Attempts[2].outcome # "ok") =>
         last.out.status = "raised" /\ last.out.error = Attempts[2].outcome

\* C2 amended: a RuntimeError of torch.load in an attempt that targets the GPU
\* is caught and followed by exactly one attempt on the CPU with the same
\* path; every other failure of an attempt on the GPU, and every failure of
\* an attempt on the CPU, propagates without a retry; there are at most two
\* attempts and the call ends with a model or with the exception.
C2_OnlyGpuLoadRuntimeErrorIsRetried ==
  last.op = "load_model" =>
    /\ Len(Attempts) \in {1, 2}
    /\ last.out.status \in {"returned", "raised"}
    /\ (Attempts[1].device = "cuda" /\ Attempts[1].outcome = "load_RuntimeError") =>
         /\ Len(Attempts) = 2
         /\ Attempts[2].device = "cpu"
         /\ Attempts[2].path = Attempts[1].path
    /\ (Attempts[1].outcome # "ok"
          /\ ~(Attempts[1].device = "cuda" /\ Attempts[1].outcome = "load_RuntimeError")) =>
         /\ Len(Attempts) = 1
         /\ last.out.status = "raised" /\ last.out.error = Attempts[1].outcome
    /\ (Len(Attempts) = 2 /\ Attempts[2].outcome # "ok") =>
         last.out.status = "raised" /\ last.out.error = Attempts[2].outcome
    /\ Attempts[Len(Attempts)].outcome = "ok" =>
         /\ last.out.status = "returned"
         /\ last.out.model[1].device = Attempts[Len(Attempts)].device

\* A load_model() whose GPU attempt failed in torch.load and whose CPU retry
\* returned a model.
C2_Witness ==
  /\ last.op = "load_model"
  /\ Len(Attempts) = 2
  /\ Attempts[1].device = "cuda" /\ Attempts[1].outcome = "load_RuntimeError"
  /\ last.out.status = "returned"
  /\ last.out.device = <<"cpu">>

\* C3: load_model() of a handler whose device is the GPU, where there is no
\* GPU, targets the CPU from its first attempt on and makes no attempt on the
\* GPU; when it returns, the model is on the CPU and the handler records the
\* CPU; get_metrics_namespace() returns 'BeamML_PyTorch' whenever it is called.
C3_NoGpuLoadsOnCpu ==
  /\ (last.op = "load_model" /\ last.requested = "cuda" /\ ~cuda_is_available) =>
       /\ AllAttemptsOnCpu
       /\ Len(Attempts) = 1
       /\ last.out.warnings = <<"gpu_not_available">>
       /\ last.out.status = "raised" => last.out.error = Attempts[1].outcome
       /\ last.out.status = "returned" =>
            /\ last.out.model[1].device = "cpu"
            /\ model = last.out.model
            /\ handler.device = "cpu"
  /\ last.op = "get_metrics_namespace" => last.out = "BeamML_PyTorch"

\* A load_model() for the GPU without a GPU that returned a model.
C3_Witness ==
  /\ last.op = "load_model"
  /\ last.requested = "cuda"
  /\ ~cuda_is_available
  /\ last.out.status = "returned"

\* C8: update_model_path(p) stores p when p is a non-empty string and keeps
\* the stored path otherwise; it changes no other field of the handler; and
\* load_model() opens the stored path.
C8_UpdateModelPath ==
  /\ last.op = "update_model_path" =>
       /\ handler.state_dict_path =
            IF last.model_path \in Paths THEN last.model_path
            ELSE last.before.state_dict_path
       /\ handler = [last.before EXCEPT !.state_dict_path = handler.state_dict_path]
  /\ last.op = "load_model" =>
       \A i \in 1..Len(Attempts) : Attempts[i].path = handler.state_dict_path

\* An update_model_path('') after an update_model_path that changed the path.
C8_Witness ==
  /\ last.op = "update_model_path"
  /\ last.model_path = ""
  /\ last.before.state_dict_path = "n.pt"
  /\ handler.state_dict_path = "n.pt"

\* C9: in run_inference with the model of the latest load_model() that
\* returned, every tensor the model is invoked with is on the device the
\* model is on, which is the device the handler records.
C9_BatchOnModelDevice ==
  last.op = "run_inference" =>
    /\ last.handler.device = last.model.device
    /\ \A c \in 1..Len(last.out.calls) :
         \A k \in DOMAIN last.out.calls[c].tensors :
           last.out.calls[c].tensors[k].device = last.model.device

\* A run_inference that invoked a model on the CPU after the handler fell
\* back from the GPU.
C9_Witness ==
  /\ last.op = "run_inference"
  /\ fellBack
  /\ last.model.device = "cpu"
  /\ Len(last.out.calls) = 1
  /\ last.out.status = "returned"

\* ---- the calls that take a batch

Batch == input.batch

SameShaped(tensors) ==
  \A i \in 1..Len(tensors) : tensors[i].shape = tensors[1].shape

\* Every example has the keys of the first.
SameKeys(batch) ==
  \A i \in 1..Len(batch) : DOMAIN batch[i] = DOMAIN batch[1]

\* Some key some example has is missing from some example.
SomeKeyMissing(batch) ==
  \E i, j \in 1..Len(batch) : DOMAIN batch[i] # DOMAIN batch[j]

AllKeys(batch) == UNION {DOMAIN batch[i] : i \in 1..Len(batch)}

Having(batch, key) == {i \in 1..Len(batch) : key \in DOMAIN batch[i]}

\* Under each key, the tensors of the examples that have it are of one shape.
SameShapedPerKey(batch) ==
  \A key \in AllKeys(batch) :
    \A i, j \in Having(batch, key) : batch[i][key].shape = batch[j][key].shape

\* The model is given arguments it takes and, where it is invoked, returns
\* one slice for each example of the batch.
ModelDoesItsPart ==
  /\ DOMAIN last.inference_args \subseteq ModelArgs
  /\ \A c \in 1..Len(last.out.calls) :
       /\ last.out.calls[c].out # <<>>
       /\ Rows(last.out.calls[c].out[1]) = Len(Batch)

\* The results are one for each example, in the order of the batch, each with
\* its slice of what the model returned and with the handler's path.
OneResultPerExample ==
  /\ last.out.status = "returned"
  /\ Len(last.out.calls) = 1
  /\ Len(last.out.results) = Len(Batch)
  /\ \A i \in 1..Len(Batch) :
       /\ last.out.results[i].example = Batch[i]
       /\ last.out.results[i].inference = Slice(last.out.calls[1].out[1], i)
       /\ last.out.results[i].model_id = last.handler.state_dict_path

\* What the model of the plain handler makes of a tensor: it adds the same
\* number to every element.
PlainModelOf(t) ==
  [t EXCEPT !.device = last.model.device,
            !.data = [i \in DOMAIN t.data |->
               t.data[i] + last.model.bias + Offset(last.inference_args)
                 + MethodBias(IF last.handler.inference_fn.kind = "attr"
                              THEN last.handler.inference_fn.model_fn
                              ELSE last.model.entry)]]

\* C4 as stated: for every batch of N tensors of one shape, run_inference of
\* the plain handler returns N results, the i-th pairing the i-th tensor with
\* the i-th slice of the model's output.
C4_EveryBatchGivesNResults ==
  (last.op = "run_inference" /\ last.handler.kind = "Tensor"
     /\ SameShaped(Batch) /\ ModelDoesItsPart) =>
    /\ OneResultPerExample
    /\ \A i \in 1..Len(Batch) : last.out.results[i].inference = PlainModelOf(Batch[i])

\* C4 amended: the same for every batch of N >= 1 tensors of one shape (the
\* empty batch is a RuntimeError of torch.stack).
C4_NonEmptyBatchGivesNResults ==
  /\ (last.op = "run_inference" /\ last.handler.kind = "Tensor"
        /\ Batch # <<>> /\ SameShaped(Batch) /\ ModelDoesItsPart) =>
       /\ OneResultPerExample
       /\ \A i \in 1..Len(Batch) : last.out.results[i].inference = PlainModelOf(Batch[i])
  /\ (last.op = "run_inference" /\ last.handler.kind = "Tensor" /\ Batch = <<>>) =>
       last.out = Raised("RuntimeError", <<>>)

\* A batch of the greatest length, of tensors that differ, with its results.
C4_Witness ==
  /\ last.op = "run_inference"
  /\ last.handler.kind = "Tensor"
  /\ Len(Batch) = MaxBatch
  /\ Batch[1] # Batch[MaxBatch]
  /\ last.out.status = "returned"
  /\ Len(last.out.results) = MaxBatch

RECURSIVE BytesOfTensors(_)
BytesOfTensors(tensors) ==
  IF tensors = <<>> THEN 0
  ELSE Numel(Head(tensors).shape) * Head(tensors).width + BytesOfTensors(Tail(tensors))

RECURSIVE BytesOfDicts(_)
BytesOfDicts(batch) ==
  IF batch = <<>> THEN 0
  ELSE SumOver([k \in DOMAIN Head(batch) |->
                  Numel(Head(batch)[k].shape) * Head(batch)[k].width], DOMAIN Head(batch))
         + BytesOfDicts(Tail(batch))

\* C6: get_num_bytes returns the sum, over the tensors of the batch (the
\* values of its dicts for the keyed handler), of the number of elements
\* times the width of an element.
C6_NumBytesIsElementsTimesWidth ==
  last.op = "get_num_bytes" =>
    /\ last.out.status = "returned"
    /\ last.out.value = IF handler.kind = "Tensor" THEN BytesOfTensors(Batch)
                        ELSE BytesOfDicts(Batch)

\* C7 as stated: a keyed batch in which some key is missing from some example
\* fails when its tensors are stacked: the model is not invoked and no result
\* is returned.
C7_MissingKeyFailsAtStack ==
  (last.op = "run_inference" /\ last.handler.kind = "KeyedTensor" /\ SomeKeyMissing(Batch)) =>
    /\ last.out.status = "raised"
    /\ last.out.calls = <<>>
    /\ last.out.results = <<>>

\* C7 amended: stacking fails, with no invocation and no result, exactly when
\* the tensors under some key differ in shape.  A batch in which some key is
\* missing from some example, and whose tensors agree in shape under each
\* key, is stacked: the function is invoked once (unless an extra argument has
\* the name of a key), with one tensor for each key any example has, of as
\* many rows as examples have the key.
C7_MissingKeyIsStacked ==
  (last.op = "run_inference" /\ last.handler.kind = "KeyedTensor") =>
    /\ ~SameShapedPerKey(Batch) => last.out = Raised("RuntimeError", <<>>)
    /\ (SomeKeyMissing(Batch) /\ SameShapedPerKey(Batch)
          /\ AllKeys(Batch) \cap DOMAIN last.inference_args = {}) =>
         /\ Len(last.out.calls) = 1
         /\ DOMAIN last.out.calls[1].tensors = AllKeys(Batch)
         /\ \A key \in AllKeys(Batch) :
              Rows(last.out.calls[1].tensors[key]) = Cardinality(Having(Batch, key))


\* A keyed batch with a key that its first example has and its last has not,
\* for which a lenient model was invoked and results were returned.
C7_Witness ==
  /\ last.op = "run_inference"
  /\ last.handler.kind = "KeyedTensor"
  /\ Len(Batch) = MaxBatch
  /\ DOMAIN Batch[1] = {"a", "b"}
  /\ DOMAIN Batch[MaxBatch] = {"a"}
  /\ Len(last.out.calls) = 1
  /\ Rows(last.out.calls[1].tensors["b"]) < Rows(last.out.calls[1].tensors["a"])
  /\ last.out.status = "returned"

\* C10: for every keyed batch, the function make_keyed_tensor_model_fn(name)
\* returns comes to what default_keyed_tensor_inference_fn comes to on the
\* same model with the method called name as its entry point: the same
\* invocation, and the same results or the same exception.
C10_NamedMethodFnIsDefaultFn ==
  (last.op = "run_inference" /\ last.handler.kind = "KeyedTensor"
     /\ last.handler.inference_fn.kind = "attr") =>
    last.out = default_keyed_tensor_inference_fn(
                 Batch, [last.model EXCEPT !.entry = last.handler.inference_fn.model_fn],
                 last.handler.device, last.inference_args, last.handler.state_dict_path)

====
